---- MODULE Spec2Model ----
(***************************************************************************)
(* Zandagort server (src/zandagort.py): request threads and the cron       *)
(* thread put work items on one request queue; the main thread             *)
(* (ZandagortServer.serve_forever) takes them one at a time and is the     *)
(* only thread that touches the Game through the controllers.              *)
(***************************************************************************)
EXTENDS Naturals, Sequences, FiniteSets

(* ---------------------------- bounds ----------------------------------- *)

\* number of request threads (one per inbound HTTP request)
NumAcceptors == 2

\* number of times the cron thread calls _cron_fun
MaxCron == 1

\* interval in seconds of the "sim" cron task and of the "dump" cron task
CronSimInterval == 5
CronDumpInterval == 10

\* length in seconds of the observed run of the cron thread
RunSeconds == 31

(* ---------------------------- data ------------------------------------- *)

Acceptors == 1..NumAcceptors

\* the empty auth cookie value "" of _get_auth_cookie_value; session tokens
\* are the positive numbers
NoCookie == 0

\* Python's None
None == [is_none |-> TRUE]

\* InnerCommands = MyEnum("InnerCommands", names=["Sim", "Dump"])
InnerCommands == {"Sim", "Dump"}

\* ErrorCodes = MyEnum("ErrorCodes", names=["ArgumentSyntaxError"])
ArgumentSyntaxError == "ArgumentSyntaxError"

\* a parsed argument mapping (the result of _parse_qs_flat or json.loads)
ArgumentDict == "{}"

\* the requests a request thread hands to _get_response.  do_GET and do_POST
\* pass "GET" and "POST"; "PUT" stands for any other value of the method
\* parameter of _get_response
ClientInputs ==
    { [method |-> "POST", command |-> "login",        arguments |-> ArgumentDict],
      [method |-> "GET",  command |-> "private",      arguments |-> ArgumentDict],
      [method |-> "GET",  command |-> "private",      arguments |-> ArgumentSyntaxError],
      [method |-> "GET",  command |-> "nosuch",       arguments |-> ArgumentSyntaxError],
      [method |-> "POST", command |-> "current_user", arguments |-> ArgumentDict],
      [method |-> "PUT",  command |-> "login",        arguments |-> ArgumentDict] }

\* how a call into the Game or a controller function ends
Outcomes == {"return", "raise"}

\* the tasks added to MyCron in __init__: the command each hands to _cron_fun
\* and its interval
CronTasks == [sim  |-> [command |-> "Sim",  interval |-> CronSimInterval],
              dump |-> [command |-> "Dump", interval |-> CronDumpInterval]]

\* how HTTPServer.__init__ ends: the socket is bound, or socket_error with
\* this errno
BindResults == {"ok", "EADDRINUSE", "EACCES"}

(* ---------------------------- state ------------------------------------ *)

VARIABLES
    request_queue,    \* ZandagortServer._request_queue
    response_queue,   \* my_queue of each request thread
    acc_pc,           \* position of each request thread in _get_response
    acc_request,      \* the item each request thread has put
    acc_response,     \* the local `response` of each _get_response
    cron_calls,       \* number of _cron_fun calls made by the cron thread
    now,              \* seconds since the cron thread was started
    next_due,         \* the time at which each cron task is next due
    main_pc,          \* position of main()
    bind_result,      \* how binding the listening socket ended
    stdout,           \* the lines main() has printed
    core_pc,          \* position of the main thread in serve_forever
    request,          \* the local `request` of serve_forever
    response,         \* the local `response` of serve_forever
    call,             \* locals of the running _execute_client_request
    propagating,      \* an exception is leaving serve_forever
    game_time,        \* Game.get_time()
    sessions,         \* Game.auth: token -> session
    controllers,      \* ZandagortServer._controllers
    log,              \* the lines written per log type
    logfiles_open,    \* ZandagortServer._logfiles are open
    http_serving,     \* ZandagortHTTPServer.serve_forever is running
    enq_log,          \* history: the items put on request_queue, in order
    exec_log          \* history: the _execute_* calls of the main thread, in order

world == <<game_time, sessions, controllers>>

vars == <<request_queue, response_queue, acc_pc, acc_request, acc_response,
          cron_calls, now, next_due, main_pc, bind_result, stdout, core_pc, request, response, call, propagating,
          game_time, sessions, controllers, log, logfiles_open, http_serving,
          enq_log, exec_log>>

acceptor_vars == <<response_queue, acc_pc, acc_request, acc_response>>
cron_vars == <<cron_calls, now, next_due>>
main_vars == <<main_pc, bind_result, stdout>>
core_vars == <<core_pc, request, response, call, propagating>>
shutdown_vars == <<logfiles_open, http_serving>>

(* ---------------------------- collaborators ---------------------------- *)

\* a handler capability of a controller: a callable attribute; only a public
\* one carries is_public
PublicHandler(name) == [callable |-> TRUE, name |-> name, is_public |-> TRUE]
PrivateHandler(name) == [callable |-> TRUE, name |-> name]

\* GetController(self._game): its attributes by name
GetController == [n \in {"private"} |-> PrivateHandler(n)]

\* PostController(self._game): its attributes by name
PostController == [n \in {"login", "private"} |->
                    IF n = "login" THEN PublicHandler(n) ELSE PrivateHandler(n)]

\* Game.auth.get_user_by_auth_cookie
get_user_by_auth_cookie(store, token) ==
    IF token \in DOMAIN store THEN store[token].user ELSE None

\* the token Game.auth.create_new_session issues next
new_token(store) == Cardinality(DOMAIN store) + 1

\* Game.auth.create_new_session: the store with a fresh guest session
create_new_session(store) ==
    [t \in DOMAIN store \cup {new_token(store)} |->
        IF t \in DOMAIN store THEN store[t]
        ELSE [user |-> [id |-> t, guest |-> TRUE], renewals |-> 0]]

\* Game.auth.renew_session
renew_session(store, token) ==
    IF token \in DOMAIN store
    THEN [store EXCEPT ![token].renewals = @ + 1]
    ELSE store

\* Game.auth.is_guest
is_guest(user) == user.guest

\* the effect of the controller function `login` on Game.auth: the session of
\* the controller's auth_cookie_value becomes a registered user's
login(store, token) ==
    IF token \in DOMAIN store
    THEN [store EXCEPT ![token].user.guest = FALSE]
    ELSE store

(* ---------------------------- Python helpers --------------------------- *)

\* hasattr(obj, name)
hasattr(obj, name) == name \in DOMAIN obj

\* an assignment that keeps the value an attribute already has
setattr_if_absent(obj, name, value) ==
    [n \in DOMAIN obj \cup {name} |->
        IF n = name /\ n \notin DOMAIN obj THEN value ELSE obj[n]]

\* setattr(obj, name, value)
setattr(obj, name, value) ==
    [n \in DOMAIN obj \cup {name} |-> IF n = name THEN value ELSE obj[n]]

\* getattr(controller_function, "is_public", True)
is_public_by_default(attr) == IF "is_public" \in DOMAIN attr THEN attr.is_public ELSE TRUE

\* getattr(controller_function, "is_public", False)
is_public(attr) == IF "is_public" \in DOMAIN attr THEN attr.is_public ELSE FALSE

\* whether calling the attribute runs a controller function
callable(attr) == "callable" \in DOMAIN attr

\* ZandagortServer._log: one more line on the log of that type
_log(logtype, message) ==
    log' = [log EXCEPT ![logtype] = Append(@, message)]

(* ---------------------------- initial state ---------------------------- *)

\* ZandagortServer.__init__ followed by start()
Init ==
    /\ request_queue = <<>>
    /\ response_queue = [a \in Acceptors |-> <<>>]
    /\ acc_pc = [a \in Acceptors |-> "start"]
    /\ acc_request = [a \in Acceptors |-> None]
    /\ acc_response = [a \in Acceptors |-> None]
    /\ cron_calls = 0
    /\ now = 0
    /\ next_due = [t \in DOMAIN CronTasks |-> CronTasks[t].interval]
    /\ main_pc = "serve_forever"
    /\ bind_result = "ok"
    /\ stdout = <<"Launching Zandagort Server...", "Zandagort Server launched.">>
    /\ core_pc = "get"
    /\ request = None
    /\ response = None
    /\ call = None
    /\ propagating = FALSE
    /\ game_time = 0
    /\ sessions = << >>
    /\ controllers = [m \in {"GET", "POST"} |->
                        IF m = "GET" THEN GetController ELSE PostController]
    /\ log = [t \in {"sys", "error", "access"} |->
                IF t = "sys" THEN <<"Listening">> ELSE <<>>]
    /\ logfiles_open = TRUE
    /\ http_serving = TRUE
    /\ enq_log = <<>>
    /\ exec_log = <<>>

\* the first line main() prints, and the lines it prints for the socket_error
\* it takes to mean that the port is in use
LaunchingLine == "Launching Zandagort Server..."
PortUsedLines == <<"[ERROR] port already used by some other service.",
                   "Change it in config.py">>

\* the process at the first line of main(): no ZandagortServer yet
InitMain ==
    /\ request_queue = <<>>
    /\ response_queue = [a \in Acceptors |-> <<>>]
    /\ acc_pc = [a \in Acceptors |-> "start"]
    /\ acc_request = [a \in Acceptors |-> None]
    /\ acc_response = [a \in Acceptors |-> None]
    /\ cron_calls = 0
    /\ now = 0
    /\ next_due = [t \in DOMAIN CronTasks |-> CronTasks[t].interval]
    /\ main_pc = "launch"
    /\ bind_result = "unbound"
    /\ stdout = <<LaunchingLine>>
    /\ core_pc = "not_started"
    /\ request = None
    /\ response = None
    /\ call = None
    /\ propagating = FALSE
    /\ game_time = 0
    /\ sessions = << >>
    /\ controllers = [m \in {"GET", "POST"} |->
                        IF m = "GET" THEN GetController ELSE PostController]
    /\ log = [t \in {"sys", "error", "access"} |-> <<>>]
    /\ logfiles_open = FALSE
    /\ http_serving = FALSE
    /\ enq_log = <<>>
    /\ exec_log = <<>>

(* ---------------------------- main() ----------------------------------- *)

\* main: server = ZandagortServer(host, port) and the except clause for
\* socket_error; HTTPServer.__init__ binds the listening socket
main_construct ==
    /\ main_pc = "launch"
    /\ \E result \in BindResults :
         /\ bind_result' = result
         /\ \/ /\ result = "ok"
               /\ logfiles_open' = TRUE
               /\ main_pc' = "start"
               /\ UNCHANGED stdout
            \/ /\ result = "EACCES"
               /\ stdout' = stdout \o PortUsedLines
               /\ main_pc' = "returned"
               /\ UNCHANGED logfiles_open
            \/ /\ result \notin {"ok", "EACCES"}
               /\ main_pc' = "raised"
               /\ UNCHANGED <<stdout, logfiles_open>>
    /\ UNCHANGED <<request_queue, acceptor_vars, cron_vars, core_vars, world, log,
                   http_serving, enq_log, exec_log>>

\* main: server.start(), the print and the entry into server.serve_forever()
main_start ==
    /\ main_pc = "start"
    /\ http_serving' = TRUE
    /\ _log("sys", "Listening")
    /\ stdout' = Append(stdout, "Zandagort Server launched.")
    /\ main_pc' = "serve_forever"
    /\ core_pc' = "get"
    /\ UNCHANGED <<request_queue, acceptor_vars, cron_vars, bind_result, request,
                   response, call, propagating, world, logfiles_open, enq_log,
                   exec_log>>

\* main: serve_forever has ended; its exception leaves main too, otherwise the
\* last line is printed
main_end ==
    /\ main_pc = "serve_forever"
    /\ core_pc = "stopped"
    /\ IF propagating
       THEN main_pc' = "raised" /\ UNCHANGED stdout
       ELSE /\ main_pc' = "returned"
            /\ stdout' = Append(stdout, "Zandagort Server shut down.")
    /\ UNCHANGED <<request_queue, acceptor_vars, cron_vars, bind_result, core_vars,
                   world, log, shutdown_vars, enq_log, exec_log>>

(* ---------------------------- request threads -------------------------- *)

\* the auth cookies a client can hold: none, or one a response has carried
KnownCookies ==
    {NoCookie} \cup {acc_response[b].auth_cookie_value : b \in {c \in Acceptors : acc_pc[c] = "done"}}

\* the item _get_response puts for its caller
ClientRequest(a, inp, cookie) ==
    [response_queue |-> a,
     method |-> inp.method,
     command |-> inp.command,
     arguments |-> inp.arguments,
     auth_cookie_value |-> cookie,
     client_ip |-> a]

\* ZandagortRequestHandler._get_response up to self.server.request_queue.put;
\* the request threads are numbered in the order in which they put
_get_response_put(a) ==
    /\ acc_pc[a] = "start"
    /\ \A b \in Acceptors : b < a => acc_pc[b] # "start"
    /\ \E inp \in ClientInputs, cookie \in KnownCookies :
         LET item == ClientRequest(a, inp, cookie) IN
         /\ request_queue' = Append(request_queue, item)
         /\ enq_log' = Append(enq_log, item)
         /\ acc_request' = [acc_request EXCEPT ![a] = item]
    /\ acc_pc' = [acc_pc EXCEPT ![a] = "waiting"]
    /\ UNCHANGED <<response_queue, acc_response, cron_vars, main_vars, core_vars, world,
                   log, shutdown_vars, exec_log>>

\* ZandagortRequestHandler._get_response from my_queue.get() on
_get_response_get(a) ==
    /\ acc_pc[a] = "waiting"
    /\ response_queue[a] # <<>>
    /\ acc_response' = [acc_response EXCEPT ![a] = Head(response_queue[a])]
    /\ response_queue' = [response_queue EXCEPT ![a] = Tail(@)]
    /\ acc_pc' = [acc_pc EXCEPT ![a] = "done"]
    /\ UNCHANGED <<request_queue, acc_request, cron_vars, main_vars, core_vars, world,
                   log, shutdown_vars, enq_log, exec_log>>

(* ---------------------------- cron thread ------------------------------ *)

\* a _cron_fun that runs the simulation itself, in the cron thread
_cron_fun_direct(command) ==
    /\ request_queue' = Append(request_queue, [inner_command |-> command])
    /\ enq_log' = Append(enq_log, [inner_command |-> command])
    /\ game_time' = IF command = "Sim" THEN game_time + 1 ELSE game_time
    /\ UNCHANGED <<acceptor_vars, core_vars, sessions, controllers, log,
                   shutdown_vars, exec_log>>

\* a _cron_fun on a request queue made with maxsize=1: put waits while the
\* queue is full
_cron_fun_bounded(command) ==
    /\ Len(request_queue) < 1
    /\ request_queue' = Append(request_queue, [inner_command |-> command])
    /\ enq_log' = Append(enq_log, [inner_command |-> command])
    /\ UNCHANGED <<acceptor_vars, core_vars, world, log, shutdown_vars, exec_log>>

\* ZandagortServer._cron_fun
_cron_fun(command) ==
    /\ request_queue' = Append(request_queue, [inner_command |-> command])
    /\ enq_log' = Append(enq_log, [inner_command |-> command])
    /\ UNCHANGED <<acceptor_vars, core_vars, world, log, shutdown_vars, exec_log>>

\* the cron thread runs a due task: the tasks added in __init__ call
\* _cron_fun with InnerCommands.Sim or InnerCommands.Dump
cron_task ==
    /\ cron_calls < MaxCron
    /\ cron_calls' = cron_calls + 1
    /\ \E command \in InnerCommands : _cron_fun(command)
    /\ UNCHANGED <<now, next_due, main_vars>>

\* a command name that is no member of InnerCommands
OtherCommand == "Other"

\* the cron thread runs a task added with a command that is neither Sim nor
\* Dump: _cron_fun puts whatever command it is given
cron_task_other ==
    /\ \A i \in 1..Len(enq_log) : enq_log[i] # [inner_command |-> OtherCommand]
    /\ _cron_fun(OtherCommand)
    /\ UNCHANGED <<cron_vars, main_vars>>

\* a second of the run passes; the cron thread may be late for its tasks
clock_tick ==
    /\ now < RunSeconds
    /\ now' = now + 1
    /\ UNCHANGED <<request_queue, acceptor_vars, cron_calls, next_due, main_vars,
                   core_vars, world, log, shutdown_vars, enq_log, exec_log>>

\* MyCron: an awake cron thread finds the due time of a task passed, calls
\* its function and moves the due time on by the interval of the task
cron_run(task) ==
    /\ next_due[task] <= now
    /\ _cron_fun(CronTasks[task].command)
    /\ next_due' = [next_due EXCEPT ![task] = @ + CronTasks[task].interval]
    /\ UNCHANGED <<cron_calls, now, main_vars>>

(* ---------------------------- main thread ------------------------------ *)

\* history: one _execute_* call of the main thread, with Game.auth and the
\* attribute names of each controller as they were when it began
Executed(item, invoked, result) ==
    [item |-> item,
     sessions |-> sessions,
     attributes |-> [m \in DOMAIN controllers |-> DOMAIN controllers[m]],
     invoked |-> invoked,
     result |-> result]

\* a queue that hands out the newest item first
queue_get_lifo(q) == [item |-> q[Len(q)], rest |-> SubSeq(q, 1, Len(q) - 1)]

\* queue.Queue.get on the request queue: the oldest item and the rest
queue_get(q) == [item |-> Head(q), rest |-> Tail(q)]

\* the main thread is inside the while loop of serve_forever
Running == core_pc \in {"get", "handler"}

\* serve_forever: self._request_queue.get(True, 4) returns an item
serve_forever_get ==
    /\ core_pc = "get"
    /\ request_queue # <<>>
    /\ request_queue' = queue_get(request_queue).rest

\* a serve_forever that takes queue.Empty as the end of its work
serve_forever_empty_ends ==
    /\ core_pc = "get"
    /\ request_queue = <<>>
    /\ core_pc' = "stopped"
    /\ UNCHANGED <<request_queue, acceptor_vars, cron_vars, main_vars, request,
                   response, call, propagating, world, log, shutdown_vars, enq_log,
                   exec_log>>

\* serve_forever: the get times out with queue.Empty and the loop continues
serve_forever_empty ==
    /\ core_pc = "get"
    /\ request_queue = <<>>
    /\ UNCHANGED vars

\* serve_forever: the finally clause, self._server.shutdown() and _shutdown(),
\* entered with the given lines on the sys log
serve_forever_finally(sys_lines) ==
    /\ http_serving' = FALSE
    /\ log' = [log EXCEPT !["sys"] = sys_lines \o <<"Shut down.">>]
    /\ logfiles_open' = FALSE
    /\ core_pc' = "stopped"

\* ZandagortServer._execute_inner_command for the item just taken, then
\* task_done() in serve_forever; an exception of Game.sim() leaves
\* serve_forever through its finally clause
_execute_inner_command(item, command) ==
    /\ \/ /\ command = "Sim"
          /\ \E outcome \in Outcomes :
               \/ /\ outcome = "return"
                  /\ exec_log' = Append(exec_log, Executed(item, FALSE, None))
                  /\ game_time' = game_time + 1
                  /\ _log("sys", "[Sim] game time")
                  /\ core_pc' = "get"
                  /\ UNCHANGED <<propagating, shutdown_vars>>
               \/ /\ outcome = "raise"
                  /\ exec_log' = Append(exec_log,
                        Executed(item, FALSE, [raised |-> "RuntimeError"]))
                  /\ propagating' = TRUE
                  /\ serve_forever_finally(log["sys"])
                  /\ UNCHANGED game_time
       \/ /\ command = "Dump"
          /\ exec_log' = Append(exec_log, Executed(item, FALSE, None))
          /\ log' = [log EXCEPT !["sys"] = @ \o <<"[Dump] Dumping...", "[Dump] Dumped.">>]
          /\ core_pc' = "get"
          /\ UNCHANGED <<game_time, propagating, shutdown_vars>>
       \/ /\ command \notin {"Sim", "Dump"}
          /\ exec_log' = Append(exec_log, Executed(item, FALSE, None))
          /\ _log("sys", "Unknown command")
          /\ core_pc' = "get"
          /\ UNCHANGED <<game_time, propagating, shutdown_vars>>
    /\ request' = item
    /\ UNCHANGED <<acceptor_vars, cron_vars, main_vars, response, call, sessions, controllers,
                   enq_log>>

\* serve_forever: an item that holds "inner_command" is taken and executed
serve_forever_inner ==
    /\ serve_forever_get
    /\ "inner_command" \in DOMAIN queue_get(request_queue).item
    /\ _execute_inner_command(queue_get(request_queue).item,
                              queue_get(request_queue).item.inner_command)

\* the checks with the arguments looked at before the command is resolved
check_request_arguments_first(method, command, arguments, current_user) ==
    IF method \notin {"GET", "POST"} THEN "Unknown method"
    ELSE IF arguments = ArgumentSyntaxError THEN "Syntax error in arguments"
    ELSE IF ~hasattr(controllers[method], command) THEN "Unknown command"
    ELSE IF /\ ~is_public(controllers[method][command])
            /\ is_guest(current_user)
         THEN "Access denied. You have to login."
    ELSE ""

\* the checks with the access check made before the arguments are looked at
check_request_access_first(method, command, arguments, current_user) ==
    IF method \notin {"GET", "POST"} THEN "Unknown method"
    ELSE IF ~hasattr(controllers[method], command) THEN "Unknown command"
    ELSE IF /\ ~is_public(controllers[method][command])
            /\ is_guest(current_user)
         THEN "Access denied. You have to login."
    ELSE IF arguments = ArgumentSyntaxError THEN "Syntax error in arguments"
    ELSE ""

\* _execute_client_request, the checks made before the controller function is
\* called: the error message of the first check that fails, "" when all pass
check_request(method, command, arguments, current_user) ==
    IF method \notin {"GET", "POST"} THEN "Unknown method"
    ELSE IF ~hasattr(controllers[method], command) THEN "Unknown command"
    ELSE IF arguments = ArgumentSyntaxError THEN "Syntax error in arguments"
    ELSE IF /\ ~is_public(controllers[method][command])
            /\ is_guest(current_user)
         THEN "Access denied. You have to login."
    ELSE ""

\* the envelope _execute_client_request returns on failure
error_response(message, token) == [error |-> message, auth_cookie_value |-> token]

\* the envelope _execute_client_request returns on success
success_response(value, token) == [response |-> value, auth_cookie_value |-> token]

\* a serve_forever that goes on to the next item without putting the reply
serve_forever_put_dropped(item, resp) ==
    /\ response' = resp
    /\ request' = item
    /\ core_pc' = "get"
    /\ UNCHANGED acceptor_vars

\* a serve_forever that puts every reply on one shared response queue
serve_forever_put_shared(item, resp) ==
    /\ response' = resp
    /\ response_queue' = [response_queue EXCEPT ![1] = Append(@, resp)]
    /\ request' = [k \in DOMAIN item \ {"response_queue"} |-> item[k]]
    /\ core_pc' = "get"
    /\ UNCHANGED <<acc_pc, acc_request, acc_response>>

\* serve_forever: response = self._execute_client_request(...) has returned;
\* request["response_queue"].put(response), the del of the "response_queue"
\* key and task_done()
serve_forever_put(item, resp) ==
    /\ response' = resp
    /\ response_queue' = [response_queue EXCEPT ![item.response_queue] =
                             Append(@, resp)]
    /\ request' = [k \in DOMAIN item \ {"response_queue"} |-> item[k]]
    /\ core_pc' = "get"
    /\ UNCHANGED <<acc_pc, acc_request, acc_response>>

\* a session resolution that renews only a session it did not create and
\* leaves the caller's token in the reply
resolve_session_found_only(store, cookie) ==
    LET found == get_user_by_auth_cookie(store, cookie)
        created == found = None
        store1 == IF created THEN create_new_session(store) ELSE store
    IN [sessions |-> IF created THEN store1 ELSE renew_session(store1, cookie),
        auth_cookie_value |-> cookie,
        current_user |-> IF created THEN store1[new_token(store)].user ELSE found]

\* _execute_client_request, its first lines: the user of the auth cookie, a
\* new session when there is none, and the renewal of the session in use;
\* gives Game.auth afterwards and the locals auth_cookie_value, current_user
resolve_session(store, cookie) ==
    LET found == get_user_by_auth_cookie(store, cookie)
        created == found = None
        store1 == IF created THEN create_new_session(store) ELSE store
        auth_cookie_value == IF created THEN new_token(store) ELSE cookie
    IN [sessions |-> renew_session(store1, auth_cookie_value),
        auth_cookie_value |-> auth_cookie_value,
        current_user |-> IF created THEN store1[auth_cookie_value].user ELSE found]

\* _execute_client_request for the item just taken, from its first line to the
\* point where the controller function is about to be called, or to the return
\* of an error, which serve_forever puts on the response queue
_execute_client_request_begin(item, method, command, arguments, cookie, client_ip) ==
    LET resolved == resolve_session(sessions, cookie)
        auth_cookie_value == resolved.auth_cookie_value
        current_user == resolved.current_user
        message == check_request(method, command, arguments, current_user)
    IN
    /\ sessions' = resolved.sessions
    /\ IF message # ""
       THEN /\ _log("error", message)
            /\ exec_log' = Append(exec_log,
                  Executed(item, FALSE, error_response(message, auth_cookie_value)))
            /\ serve_forever_put(item, error_response(message, auth_cookie_value))
            /\ UNCHANGED <<controllers, call>>
       ELSE /\ controllers' = [controllers EXCEPT ![method] =
                   setattr(setattr(@, "current_user", current_user),
                           "auth_cookie_value", auth_cookie_value)]
            /\ call' = [method |-> method,
                        auth_cookie_value |-> auth_cookie_value,
                        current_user |-> current_user,
                        controller_function |-> controllers[method][command]]
            /\ exec_log' = Append(exec_log, Executed(item, TRUE, None))
            /\ request' = item
            /\ core_pc' = "handler"
            /\ UNCHANGED <<response, log, acceptor_vars>>
    /\ UNCHANGED <<cron_vars, main_vars, propagating, game_time, shutdown_vars, enq_log>>

\* serve_forever: a client request is taken and _execute_client_request runs
\* up to the controller call
serve_forever_client ==
    /\ serve_forever_get
    /\ "inner_command" \notin DOMAIN queue_get(request_queue).item
    /\ LET item == queue_get(request_queue).item IN
         _execute_client_request_begin(item, item.method, item.command,
                                       item.arguments, item.auth_cookie_value,
                                       item.client_ip)

\* what the called controller attribute does to Game.auth when it returns
handler_effect(fn, controller) ==
    IF fn.name = "login"
    THEN login(sessions, controller.auth_cookie_value)
    ELSE sessions

\* what the called controller attribute returns
handler_value(fn, controller) ==
    IF fn.name = "login" THEN "logged in" ELSE "private data"

\* _execute_client_request returns resp to serve_forever, which puts it on
\* the response queue of the request
return_response(resp) ==
    /\ exec_log' = [exec_log EXCEPT ![Len(exec_log)].result = resp]
    /\ serve_forever_put(request, resp)
    /\ UNCHANGED <<propagating, shutdown_vars>>

\* a controller call without the except clause: the exception leaves
\* _execute_client_request and serve_forever
except_Exception_uncaught(exc_type, exc_value) ==
    /\ propagating' = TRUE
    /\ serve_forever_finally(log["sys"])
    /\ UNCHANGED <<request, response, exec_log, acceptor_vars>>

\* an except clause that hands the failure back in a success envelope
except_Exception_as_response(exc_type, exc_value) ==
    /\ _log("error", exc_type)
    /\ return_response(success_response(exc_type \o ": " \o exc_value,
                                        call.auth_cookie_value))

\* a reply that takes its token from the field of the controller
reply_token_of_controller == controllers'[call.method]["auth_cookie_value"]

\* the token _execute_client_request puts in the envelope after the call: its
\* local auth_cookie_value
reply_token == call.auth_cookie_value

\* _execute_client_request: the except clause around the controller call
except_Exception(exc_type, exc_value) ==
    /\ _log("error", exc_type)
    /\ return_response(error_response(exc_type \o ": " \o exc_value, reply_token))

\* a controller function leaves the auth_cookie_value of its controller as it
\* is, or assigns it
Unwritten == [written |-> FALSE]
Written(value) == [written |-> TRUE, value |-> value]

\* the controllers after a call whose function did that to its own controller
handler_write(write) ==
    IF write.written
    THEN [controllers EXCEPT ![call.method] =
             setattr(@, "auth_cookie_value", write.value)]
    ELSE controllers

\* _execute_client_request from the call of controller_function to its return,
\* and the put of the reply in serve_forever, for controller functions that
\* may do one of these writes to their controller
controller_call(writes) ==
    LET fn == call.controller_function
        controller == controllers[call.method]
    IN
    /\ core_pc = "handler"
    /\ \/ /\ ~callable(fn)
          /\ UNCHANGED controllers
          /\ except_Exception("TypeError", "object is not callable")
          /\ UNCHANGED sessions
       \/ /\ callable(fn)
          /\ \E write \in writes : controllers' = handler_write(write)
          /\ \E outcome \in Outcomes :
               \/ /\ outcome = "return"
                  /\ sessions' = handler_effect(fn, controller)
                  /\ _log("access", fn.name)
                  /\ return_response(success_response(handler_value(fn, controller),
                                                      reply_token))
               \/ /\ outcome = "raise"
                  /\ except_Exception("RuntimeError", "handler failed")
                  /\ UNCHANGED sessions
    /\ UNCHANGED <<request_queue, cron_vars, main_vars, call, game_time, enq_log>>

\* the controller call of a function that does not write to its controller
_execute_client_request_call == controller_call({Unwritten})

\* the controller call of a function that may clear the auth_cookie_value of
\* its controller
_execute_client_request_call_writing == controller_call({Unwritten, Written(NoCookie)})

\* serve_forever: KeyboardInterrupt or SystemExit reaches the main thread
\* inside the try block; the except clause logs it, the finally clause runs
\* and serve_forever returns
serve_forever_interrupt ==
    /\ Running
    /\ serve_forever_finally(log["sys"] \o <<"Shutting down...">>)
    /\ UNCHANGED <<request_queue, acceptor_vars, cron_vars, main_vars, request, response, call,
                   propagating, world, enq_log, exec_log>>

(* ---------------------------- specification ---------------------------- *)

Next ==
    \/ \E a \in Acceptors : _get_response_put(a)
    \/ \E a \in Acceptors : _get_response_get(a)
    \/ cron_task
    \/ serve_forever_empty
    \/ serve_forever_inner
    \/ serve_forever_client
    \/ _execute_client_request_call
    \/ serve_forever_interrupt

Spec == Init /\ [][Next]_vars

\* the server while no KeyboardInterrupt or SystemExit reaches the main thread
NextNoInterrupt ==
    \/ \E a \in Acceptors : _get_response_put(a)
    \/ \E a \in Acceptors : _get_response_get(a)
    \/ cron_task
    \/ serve_forever_empty
    \/ serve_forever_inner
    \/ serve_forever_client
    \/ _execute_client_request_call

SpecNoInterrupt == Init /\ [][NextNoInterrupt]_vars

\* the cron thread on its schedule and the main thread taking what it puts
NextCron ==
    \/ clock_tick
    \/ \E task \in DOMAIN CronTasks : cron_run(task)
    \/ serve_forever_empty
    \/ serve_forever_inner

SpecCron == Init /\ [][NextCron]_vars

\* the process from the first line of main(); the threads run once start()
\* has started them
NextMain ==
    \/ main_construct
    \/ main_start
    \/ main_end
    \/ main_pc = "serve_forever" /\ \E a \in Acceptors : _get_response_put(a)
    \/ main_pc = "serve_forever" /\ \E a \in Acceptors : _get_response_get(a)
    \/ main_pc = "serve_forever" /\ cron_task
    \/ serve_forever_empty
    \/ serve_forever_inner
    \/ serve_forever_client
    \/ _execute_client_request_call
    \/ serve_forever_interrupt

SpecMain == InitMain /\ [][NextMain]_vars

\* the server with controller functions that may write the auth_cookie_value
\* of their controller, while no shutdown signal reaches the main thread
NextHandlerWrites ==
    \/ \E a \in Acceptors : _get_response_put(a)
    \/ \E a \in Acceptors : _get_response_get(a)
    \/ cron_task
    \/ serve_forever_empty
    \/ serve_forever_inner
    \/ serve_forever_client
    \/ _execute_client_request_call_writing

SpecHandlerWrites == Init /\ [][NextHandlerWrites]_vars

\* the server with one client connection when a cron task may also put, once,
\* a command outside InnerCommands, while no shutdown signal reaches the main
\* thread
NextAnyInner ==
    \/ _get_response_put(1)
    \/ _get_response_get(1)
    \/ cron_task
    \/ cron_task_other
    \/ serve_forever_empty
    \/ serve_forever_inner
    \/ serve_forever_client
    \/ _execute_client_request_call

SpecAnyInner == Init /\ [][NextAnyInner]_vars

(* ---------------------------- properties ------------------------------- *)

IsClient(item) == "method" \in DOMAIN item
IsInner(item) == "inner_command" \in DOMAIN item

\* the number of values the main thread has put on the response queue of a
replies_put(a) ==
    Len(response_queue[a]) + (IF acc_pc[a] = "done" THEN 1 ELSE 0)

\* the i-th executed item is a client request whose reply has been put on the
\* response queue of the request thread that sent it
Replied(i) ==
    LET e == exec_log[i]
        a == e.item.response_queue
    IN /\ e.result # None
       /\ \/ acc_pc[a] = "done" /\ acc_response[a] = e.result
          \/ acc_pc[a] = "waiting" /\ response_queue[a] = <<e.result>>

\* C1: every ClientRequest put on the request queue gets exactly one value on
\* its own response queue; stated on finite runs: no response queue ever holds
\* a second value, and once the main thread has left serve_forever (without a
\* shutdown signal) no request thread that has put a request is without its
\* reply, so none is blocked forever on my_queue.get()
C1_EveryRequestAnswered ==
    /\ \A a \in Acceptors : replies_put(a) <= 1
    /\ core_pc = "stopped" =>
         \A a \in Acceptors : acc_pc[a] # "start" => replies_put(a) = 1

\* C2: the main thread executes the work items in exactly the order in which
\* they were put on the request queue, client requests and inner commands alike
C2_FifoOrder ==
    /\ Len(exec_log) <= Len(enq_log)
    /\ \A i \in 1..Len(exec_log) : exec_log[i].item = enq_log[i]

C2_Witness ==
    /\ Len(exec_log) = 3
    /\ IsClient(exec_log[1].item)
    /\ IsInner(exec_log[2].item)
    /\ IsClient(exec_log[3].item)
    /\ exec_log[3].item.response_queue # exec_log[1].item.response_queue

\* the i-th executed item is a login that returned
LoggedIn(i) ==
    /\ IsClient(exec_log[i].item)
    /\ exec_log[i].item.method = "POST"
    /\ exec_log[i].item.command = "login"
    /\ exec_log[i].result # None
    /\ "response" \in DOMAIN exec_log[i].result

\* C3: at most one work item is in process: a client request whose reply has
\* not been put is the last item taken from the queue and the main thread is
\* still inside it (or was interrupted inside it), so every earlier item is
\* finished before the next one is taken; and what item N did to the world
\* (a login) is what item N+1 finds
C3_OneAtATime ==
    /\ \A i \in 1..Len(exec_log) :
         (IsClient(exec_log[i].item) /\ ~Replied(i)) =>
            /\ i = Len(exec_log)
            /\ core_pc \in {"handler", "stopped"}
    /\ \A i, j \in 1..Len(exec_log) :
         (i < j /\ LoggedIn(i)) =>
            ~exec_log[j].sessions[exec_log[i].result.auth_cookie_value].user.guest

C3_Witness ==
    /\ Len(exec_log) >= 3
    /\ LoggedIn(1)
    /\ IsClient(exec_log[3].item)
    /\ exec_log[3].item.auth_cookie_value = exec_log[1].result.auth_cookie_value
    /\ core_pc = "handler"

\* C4: a step of a request thread or of the cron thread leaves the world state
\* (the Game, its auth store, the controllers) unchanged; a request thread
\* step puts one item on the request queue or takes one value from its own
\* response queue, a cron thread step puts one inner command
C4_OnlyMainThreadTouchesWorld ==
    [][ /\ (acc_pc' # acc_pc \/ cron_calls' # cron_calls) => UNCHANGED world
        /\ cron_calls' # cron_calls =>
             /\ Len(request_queue') = Len(request_queue) + 1
             /\ IsInner(request_queue'[Len(request_queue')])
             /\ UNCHANGED response_queue
        /\ \A a \in Acceptors :
             /\ (acc_pc[a] = "start" /\ acc_pc'[a] # "start") =>
                  /\ Len(request_queue') = Len(request_queue) + 1
                  /\ request_queue'[Len(request_queue')].response_queue = a
                  /\ UNCHANGED response_queue
             /\ (acc_pc[a] = "waiting" /\ acc_pc'[a] # "waiting") =>
                  /\ response_queue[a] # <<>>
                  /\ response_queue' = [response_queue EXCEPT ![a] = Tail(@)]
                  /\ UNCHANGED request_queue
      ]_vars

C4_Witness ==
    /\ game_time > 0
    /\ \E t \in DOMAIN sessions : ~sessions[t].user.guest
    /\ cron_calls = MaxCron
    /\ \A a \in Acceptors : acc_pc[a] = "done"

\* the value v is what _execute_client_request returned for the request that
\* request thread a put
Delivered(a, v) ==
    \E i \in 1..Len(exec_log) :
        /\ exec_log[i].item = acc_request[a]
        /\ exec_log[i].result = v

\* C5: every value on the response queue of a request thread, and the value it
\* has received, is the result of _execute_client_request for the request that
\* this same thread put
C5_Correlation ==
    \A a \in Acceptors :
        /\ acc_pc[a] = "done" => Delivered(a, acc_response[a])
        /\ \A k \in 1..Len(response_queue[a]) : Delivered(a, response_queue[a][k])

C5_Witness ==
    \E a, b \in Acceptors :
        /\ acc_pc[a] = "done" /\ acc_pc[b] = "done"
        /\ "response" \in DOMAIN acc_response[a]
        /\ "error" \in DOMAIN acc_response[b]
        /\ acc_response[a].auth_cookie_value # acc_response[b].auth_cookie_value

\* an executed inner command raised an exception
InnerFailed ==
    \E i \in 1..Len(exec_log) :
        /\ IsInner(exec_log[i].item)
        /\ exec_log[i].result # None

\* C6: when executing an inner command fails (Game.sim() raises), the error is
\* caught and the main thread stays in the loop of serve_forever, ready for the
\* later work items
C6_InnerFailureSurvived ==
    InnerFailed => (Running /\ ~propagating)

\* the step in which _execute_client_request returns a failure envelope
ErrorReturned ==
    /\ exec_log' # exec_log
    /\ LET e == exec_log'[Len(exec_log')] IN
         /\ IsClient(e.item)
         /\ e.result # None
         /\ "error" \in DOMAIN e.result

\* the five request-scope failures as _execute_client_request words them
FailureMessages ==
    {"Unknown method", "Unknown command", "Syntax error in arguments",
     "Access denied. You have to login.",
     "RuntimeError: handler failed", "TypeError: object is not callable"}

\* C7: a failure of a client request (unknown method, unknown command, argument
\* syntax error, access denied, exception of the controller function) becomes
\* the failure response of that request only: the failing call returns the
\* envelope to serve_forever, which puts it on the response queue of that
\* request and goes back to the queue, the other queued items left alone; the
\* main thread leaves the loop only on a shutdown signal or on an exception of
\* an inner command, never on such a failure
C7_FailuresAreRequestScoped ==
    [][ /\ ErrorReturned =>
             LET e == exec_log'[Len(exec_log')]
                 a == e.item.response_queue
             IN
             /\ core_pc' = "get"
             /\ response' = e.result
             /\ e.result.error \in FailureMessages
             /\ response_queue' = [response_queue EXCEPT ![a] = Append(@, e.result)]
             /\ \/ request_queue' = request_queue
                \/ /\ request_queue # <<>>
                   /\ Head(request_queue) = e.item
                   /\ request_queue' = Tail(request_queue)
             /\ UNCHANGED propagating
        /\ (Running /\ ~Running') =>
             \/ log'["sys"] = log["sys"] \o <<"Shutting down...", "Shut down.">>
             \/ /\ Len(exec_log') = Len(exec_log) + 1
                /\ IsInner(exec_log'[Len(exec_log')].item)
      ]_vars

C7_Witness ==
    /\ Len(exec_log) >= 3
    /\ IsClient(exec_log[1].item) /\ Replied(1)
    /\ IsClient(exec_log[2].item) /\ Replied(2)
    /\ "error" \in DOMAIN exec_log[1].result
    /\ "error" \in DOMAIN exec_log[2].result
    /\ exec_log[1].result.error = "RuntimeError: handler failed"
    /\ exec_log[2].result.error = "Unknown command"
    /\ IsInner(exec_log[3].item)
    /\ game_time = 1
    /\ core_pc = "get"

\* the handler capabilities registered on the controller of a method
RegisteredHandlers(method) ==
    DOMAIN (IF method = "GET" THEN GetController ELSE PostController)

\* C8: a client request with a valid method whose command is not a registered
\* handler capability of that method's controller gets the "Unknown command"
\* failure and nothing on the controller is called for it
C8_UnregisteredIsUnknownCommand ==
    \A i \in 1..Len(exec_log) :
        LET e == exec_log[i] IN
        (/\ IsClient(e.item)
         /\ e.item.method \in {"GET", "POST"}
         /\ e.item.command \notin RegisteredHandlers(e.item.method)) =>
            /\ ~e.invoked
            /\ e.result = error_response("Unknown command", e.result.auth_cookie_value)

\* the registered handler capabilities of a method that carry is_public
PublicHandlers(method) ==
    LET class == IF method = "GET" THEN GetController ELSE PostController IN
    {n \in DOMAIN class : "is_public" \in DOMAIN class[n] /\ class[n].is_public}

\* the i-th executed item is a well-formed client request for a command that
\* resolves on its method's controller to something that is not public
NonPublicRequest(i) ==
    LET e == exec_log[i] IN
    /\ IsClient(e.item)
    /\ e.item.method \in {"GET", "POST"}
    /\ e.item.command \in e.attributes[e.item.method]
    /\ e.item.arguments # ArgumentSyntaxError
    /\ e.item.command \notin PublicHandlers(e.item.method)

\* the i-th executed item came with the token of a session of a registered user
NonGuestToken(i) ==
    LET e == exec_log[i] IN
    /\ e.item.auth_cookie_value \in DOMAIN e.sessions
    /\ ~e.sessions[e.item.auth_cookie_value].user.guest

\* the token _execute_client_request settles on for the i-th executed item
SettledToken(i) ==
    LET e == exec_log[i] IN
    IF e.item.auth_cookie_value \in DOMAIN e.sessions
    THEN e.item.auth_cookie_value
    ELSE Cardinality(DOMAIN e.sessions) + 1

\* C9: a well-formed request for a resolved non-public command is answered
\* "Access denied" without any call when the identity is a guest (a guest
\* session, or no valid token and so a fresh guest session); with the token of
\* a non-guest session the controller function is called and the reply is what
\* the call produced (its value, or the failure it raised)
C9_GuestDeniedUserServed ==
    \A i \in 1..Len(exec_log) :
        LET e == exec_log[i]
            registered == e.item.command \in RegisteredHandlers(e.item.method)
        IN
        NonPublicRequest(i) =>
            IF NonGuestToken(i)
            THEN /\ e.invoked
                 /\ \/ e.result = None
                    \/ /\ registered
                       /\ e.result \in
                            {success_response("private data", SettledToken(i)),
                             error_response("RuntimeError: handler failed", SettledToken(i))}
                    \/ /\ ~registered
                       /\ e.result = error_response("TypeError: object is not callable",
                                                    SettledToken(i))
            ELSE /\ ~e.invoked
                 /\ e.result = error_response("Access denied. You have to login.",
                                              SettledToken(i))

C9_Witness ==
    \E i \in 1..Len(exec_log) :
        /\ NonPublicRequest(i)
        /\ NonGuestToken(i)
        /\ exec_log[i].item.command = "private"
        /\ exec_log[i].result = success_response("private data", SettledToken(i))

\* the i-th executed item is a client request with a valid method whose
\* arguments are the ArgumentSyntaxError marker
MarkerRequest(i) ==
    /\ IsClient(exec_log[i].item)
    /\ exec_log[i].item.method \in {"GET", "POST"}
    /\ exec_log[i].item.arguments = ArgumentSyntaxError

\* C10 as stated: a request with a valid method and the ArgumentSyntaxError
\* marker gets the argument syntax failure whether or not its command exists
C10_MarkerAlwaysSyntaxError ==
    \A i \in 1..Len(exec_log) :
        MarkerRequest(i) =>
            /\ ~exec_log[i].invoked
            /\ exec_log[i].result =
                 error_response("Syntax error in arguments", SettledToken(i))

\* C10 amended: a request with a valid method and the ArgumentSyntaxError marker
\* gets the argument syntax failure when its command resolves on the method's
\* controller (whoever asks, before any access check) and the unknown command
\* failure when it does not: the marker is looked at only after the command
\* has been resolved
C10_MarkerAfterResolution ==
    \A i \in 1..Len(exec_log) :
        LET e == exec_log[i] IN
        MarkerRequest(i) =>
            /\ ~e.invoked
            /\ e.result =
                 error_response(
                    IF e.item.command \in e.attributes[e.item.method]
                    THEN "Syntax error in arguments"
                    ELSE "Unknown command",
                    SettledToken(i))

C10_Witness ==
    \E i, j \in 1..Len(exec_log) :
        /\ MarkerRequest(i) /\ MarkerRequest(j)
        /\ exec_log[i].item.command = "private"
        /\ exec_log[i].result.error = "Syntax error in arguments"
        /\ exec_log[j].item.command = "nosuch"
        /\ exec_log[j].result.error = "Unknown command"

\* the number of times the "sim" task has put its InnerCommand
SimPuts ==
    Cardinality({i \in 1..Len(enq_log) : enq_log[i] = [inner_command |-> "Sim"]})

\* C11: a cron task with an interval of 5 seconds has put exactly 6
\* InnerCommands when 31 seconds have run and nothing of it is due; each
\* firing puts one InnerCommand and moves the task's next due time on by one
\* full interval; and a tick that was missed while the cron thread was late is
\* skipped: after a firing the task is not due again at once, so no tick is
\* made up for by a burst of puts
C11_CronSkipsMissedTicks ==
    [][ /\ \A task \in DOMAIN CronTasks :
             next_due'[task] # next_due[task] =>
                /\ next_due'[task] = next_due[task] + CronTasks[task].interval
                /\ request_queue' =
                     Append(request_queue, [inner_command |-> CronTasks[task].command])
                /\ next_due'[task] > now
        /\ (now' = RunSeconds /\ next_due'["sim"] > now') => SimPuts' = 6
      ]_vars

\* the step in which the main thread takes a client request from the queue
ClientTaken ==
    /\ Len(exec_log') = Len(exec_log) + 1
    /\ IsClient(exec_log'[Len(exec_log')].item)

\* C12: for every client request, whatever becomes of it, the step that takes
\* it looks the token up; when the token has a user no session is created and
\* that session is renewed once; when it has none exactly one session, a
\* guest's, is created and renewed once; no other session is touched, the
\* controller call renews nothing, and the reply of a request for which a
\* session was created carries the new token, not the one that was sent
C12_ResolveCreateRenew ==
    [][ /\ ClientTaken =>
             LET e == exec_log'[Len(exec_log')]
                 cookie == e.item.auth_cookie_value
             IN
             IF cookie \in DOMAIN sessions
             THEN /\ DOMAIN sessions' = DOMAIN sessions
                  /\ sessions' = [sessions EXCEPT ![cookie].renewals = @ + 1]
             ELSE \E t \in DOMAIN sessions' \ DOMAIN sessions :
                  /\ DOMAIN sessions' = DOMAIN sessions \cup {t}
                  /\ sessions'[t].renewals = 1
                  /\ sessions'[t].user.guest
                  /\ \A u \in DOMAIN sessions : sessions'[u] = sessions[u]
                  /\ e.result # None => e.result.auth_cookie_value = t
        /\ core_pc = "handler" =>
             /\ DOMAIN sessions' = DOMAIN sessions
             /\ \A u \in DOMAIN sessions : sessions'[u].renewals = sessions[u].renewals
             /\ LET e == exec_log'[Len(exec_log')] IN
                  (e.result # None /\ e.item.auth_cookie_value \notin DOMAIN e.sessions) =>
                     /\ e.result.auth_cookie_value \in DOMAIN sessions \ DOMAIN e.sessions
                     /\ e.result.auth_cookie_value # e.item.auth_cookie_value
      ]_vars

C12_Witness ==
    \E i, j \in 1..Len(exec_log) :
        /\ i < j
        /\ IsClient(exec_log[i].item) /\ IsClient(exec_log[j].item)
        /\ exec_log[i].item.auth_cookie_value \notin DOMAIN exec_log[i].sessions
        /\ exec_log[i].result # None /\ "response" \in DOMAIN exec_log[i].result
        /\ exec_log[j].item.auth_cookie_value = exec_log[i].result.auth_cookie_value
        /\ exec_log[j].result # None /\ "error" \in DOMAIN exec_log[j].result
        /\ sessions[exec_log[i].result.auth_cookie_value].renewals = 2

\* C13: a shutdown signal only keeps the main thread from taking new items:
\* when serve_forever ends on KeyboardInterrupt or SystemExit, every client
\* request it had taken, the one in its controller call included, has run to
\* its end and has its reply on its response queue; the HTTP server is shut
\* down and the log files are closed; and once serve_forever has ended no item
\* is taken or executed
C13_ShutdownCompletesInFlight ==
    [][ /\ (Running /\ core_pc' = "stopped" /\ ~propagating') =>
             /\ \A i \in 1..Len(exec_log') :
                  IsClient(exec_log'[i].item) => Replied(i)'
             /\ ~http_serving' /\ ~logfiles_open'
        /\ core_pc = "stopped" =>
             /\ UNCHANGED <<core_pc, exec_log, world>>
             /\ \A a \in Acceptors : Len(response_queue'[a]) <= Len(response_queue[a])
      ]_vars

\* the error the four checks give for the i-th executed item, made in the
\* order method, command, arguments, access; "" when all four pass
FirstFailure(i) ==
    LET e == exec_log[i]
        guest == IF e.item.auth_cookie_value \in DOMAIN e.sessions
                 THEN e.sessions[e.item.auth_cookie_value].user.guest
                 ELSE TRUE
    IN
    IF e.item.method \notin {"GET", "POST"} THEN "Unknown method"
    ELSE IF e.item.command \notin e.attributes[e.item.method] THEN "Unknown command"
    ELSE IF e.item.arguments = ArgumentSyntaxError THEN "Syntax error in arguments"
    ELSE IF e.item.command \notin PublicHandlers(e.item.method) /\ guest
         THEN "Access denied. You have to login."
    ELSE ""

\* C14: the controller function of a client request is called exactly when the
\* method is GET or POST, the command resolves on the controller of the method,
\* the arguments are not the ArgumentSyntaxError marker and the function is
\* public or the identity is not a guest; otherwise nothing is called and the
\* reply is the error of the first of these checks, in this order, that fails
C14_ChecksInOrder ==
    \A i \in 1..Len(exec_log) :
        LET e == exec_log[i] IN
        IsClient(e.item) =>
            /\ e.invoked <=> FirstFailure(i) = ""
            /\ ~e.invoked =>
                 e.result = [error |-> FirstFailure(i),
                             auth_cookie_value |-> SettledToken(i)]

C14_Witness ==
    \E i, j \in 1..Len(exec_log) :
        /\ IsClient(exec_log[i].item) /\ IsClient(exec_log[j].item)
        /\ exec_log[i].item.command = "private"
        /\ exec_log[i].item.arguments = ArgumentSyntaxError
        /\ exec_log[i].item.auth_cookie_value \notin DOMAIN exec_log[i].sessions
        /\ exec_log[i].result.error = "Syntax error in arguments"
        /\ exec_log[j].invoked
        /\ exec_log[j].result # None

\* the keys of the two envelopes
EnvelopeKeys == {{"response", "auth_cookie_value"}, {"error", "auth_cookie_value"}}

\* C15: every value the main thread puts on a response queue holds the auth
\* token and exactly one of the keys "response" and "error"; it holds
\* "response" exactly when the put ends a controller call that returned (the
\* step out of the call that writes the access line and no error line), and
\* "error" when the request was rejected before the call or the call raised
C15_EnvelopeShape ==
    [][ \A a \in Acceptors :
          Len(response_queue'[a]) > Len(response_queue[a]) =>
             LET v == response_queue'[a][Len(response_queue'[a])]
                 returned == /\ core_pc = "handler"
                             /\ Len(log'["access"]) = Len(log["access"]) + 1
                             /\ log'["error"] = log["error"]
             IN
             /\ DOMAIN v \in EnvelopeKeys
             /\ ("response" \in DOMAIN v) <=> returned
             /\ ("error" \in DOMAIN v) =>
                  Len(log'["error"]) = Len(log["error"]) + 1
      ]_vars

C15_Witness ==
    \E a, b \in Acceptors :
        /\ acc_pc[a] = "done" /\ acc_pc[b] = "done"
        /\ DOMAIN acc_response[a] = {"response", "auth_cookie_value"}
        /\ DOMAIN acc_response[b] = {"error", "auth_cookie_value"}
        /\ acc_response[b].error = "RuntimeError: handler failed"
        /\ Len(log["access"]) = 1 /\ Len(log["error"]) = 1

\* main() has printed the lines that say the port is in use
PortUsedReported ==
    \E i \in 1..Len(stdout) : stdout[i] = PortUsedLines[1]

\* C16: when binding the listening socket fails, start() and serve_forever()
\* are never reached; the "port already used" lines are printed exactly when
\* the cause is "address already in use" (EADDRINUSE), and with any other
\* cause the error leaves main()
C16_BindFailureReported ==
    bind_result \notin {"unbound", "ok"} =>
        /\ core_pc = "not_started" /\ ~http_serving /\ log["sys"] = <<>>
        /\ PortUsedReported <=> bind_result = "EADDRINUSE"
        /\ bind_result # "EADDRINUSE" => main_pc = "raised"

\* the request thread that is next to put its request
NextToPut(a) ==
    /\ acc_pc[a] = "start"
    /\ \A b \in Acceptors : b < a => acc_pc[b] # "start"

\* C17: a put on the request queue never waits: whatever the number of items
\* pending and wherever the main thread is (inside a controller call, or out
\* of serve_forever), the cron thread can make its next _cron_fun call and the
\* request thread that is next to put can put; a request thread that cannot
\* go on is waiting on its own response queue, which is empty
C17_PutNeverBlocks ==
    /\ cron_calls < MaxCron => ENABLED cron_task
    /\ \A a \in Acceptors :
         /\ NextToPut(a) => ENABLED _get_response_put(a)
         /\ (acc_pc[a] = "waiting" /\ ~ENABLED _get_response_get(a)) =>
               response_queue[a] = <<>>

C17_Witness ==
    /\ core_pc = "handler"
    /\ Len(request_queue) = 2
    /\ IsInner(request_queue[1])
    /\ IsInner(request_queue[2])
    /\ cron_calls = MaxCron
    /\ acc_pc[1] = "waiting" /\ response_queue[1] = <<>>

\* the identity _execute_client_request settles on for the i-th executed item
SettledUser(i) ==
    LET e == exec_log[i] IN
    IF e.item.auth_cookie_value \in DOMAIN e.sessions
    THEN e.sessions[e.item.auth_cookie_value].user
    ELSE [id |-> SettledToken(i), guest |-> TRUE]

\* the controller of the request in process holds the identity and the token
\* settled for that request
FieldsOfCurrentRequest ==
    LET i == Len(exec_log)
        controller == controllers[exec_log[i].item.method]
    IN /\ exec_log[i].invoked
       /\ "current_user" \in DOMAIN controller
       /\ "auth_cookie_value" \in DOMAIN controller
       /\ controller["current_user"] = SettledUser(i)
       /\ controller["auth_cookie_value"] = SettledToken(i)

\* C18: whenever the main thread is in a controller call, current_user and
\* auth_cookie_value of the controller of that request are the identity and
\* the token settled for the request in process, not those of an earlier one;
\* and a request that is rejected before the call leaves the controllers, both
\* fields of both, as they were
C18_ControllerFieldsCurrent ==
    [][ /\ core_pc' = "handler" => FieldsOfCurrentRequest'
        /\ (ClientTaken /\ ~exec_log'[Len(exec_log')].invoked) =>
             UNCHANGED controllers
      ]_vars

C18_Witness ==
    /\ core_pc = "handler"
    /\ Len(exec_log) >= 2
    /\ \E i \in 1..(Len(exec_log) - 1) :
         /\ exec_log[i].invoked
         /\ exec_log[i].item.method = exec_log[Len(exec_log)].item.method
         /\ SettledToken(i) # SettledToken(Len(exec_log))
    /\ controllers["GET"] = GetController

\* C19: the token in the reply of a client request is the token settled when
\* the request was taken (the caller's when it has a user, otherwise the new
\* one), whether the request was rejected, its call raised or its call
\* returned, also when the controller function has changed the
\* auth_cookie_value of its controller
C19_ReplyTokenIsSettledToken ==
    \A i \in 1..Len(exec_log) :
        (IsClient(exec_log[i].item) /\ exec_log[i].result # None) =>
            exec_log[i].result.auth_cookie_value = SettledToken(i)

C19_Witness ==
    \E i, j \in 1..Len(exec_log) :
        /\ i < j
        /\ exec_log[i].invoked /\ exec_log[j].invoked
        /\ exec_log[i].result # None /\ "error" \in DOMAIN exec_log[i].result
        /\ exec_log[j].result # None /\ "response" \in DOMAIN exec_log[j].result
        /\ exec_log[j].item.auth_cookie_value \in DOMAIN exec_log[j].sessions
        /\ controllers[exec_log[j].item.method]["auth_cookie_value"] = NoCookie
        /\ SettledToken(j) # NoCookie

\* the step in which the main thread takes an inner command from the queue
InnerTaken ==
    /\ Len(exec_log') = Len(exec_log) + 1
    /\ IsInner(exec_log'[Len(exec_log')].item)

\* the number of Sim items whose execution has returned
SimsDone ==
    Cardinality({i \in 1..Len(exec_log) :
                    /\ exec_log[i].item = [inner_command |-> "Sim"]
                    /\ exec_log[i].result = None})

\* C20: while the request queue is empty the main thread, whose get times out,
\* changes nothing and stays in the loop; executing an inner command that is
\* neither Sim nor Dump leaves the game time, the auth store, the controllers
\* and every response queue as they are and goes back to the queue; the game
\* time changes only in the step that takes a Sim item, by exactly one, so it
\* is the number of Sim items executed (a Sim whose Game.sim() raises is not
\* counted)
C20_IdleAndUnknownChangeNothing ==
    [][ /\ (core_pc = "get" /\ request_queue = <<>>) =>
             /\ UNCHANGED <<core_vars, world, log, shutdown_vars, exec_log>>
             /\ \A a \in Acceptors : Len(response_queue'[a]) <= Len(response_queue[a])
        /\ (InnerTaken /\ Head(request_queue).inner_command \notin {"Sim", "Dump"}) =>
             /\ UNCHANGED <<world, response_queue, shutdown_vars>>
             /\ core_pc' = "get" /\ ~propagating'
        /\ game_time' # game_time =>
             /\ InnerTaken
             /\ Head(request_queue) = [inner_command |-> "Sim"]
             /\ game_time' = game_time + 1
        /\ game_time' = SimsDone'
      ]_vars

C20_Witness ==
    /\ Len(exec_log) = 3
    /\ IsClient(exec_log[1].item) /\ exec_log[1].result # None
    /\ response_queue[exec_log[1].item.response_queue] # <<>>
    /\ exec_log[2].item = [inner_command |-> OtherCommand]
    /\ exec_log[3].item = [inner_command |-> "Sim"]
    /\ exec_log[3].result = None
    /\ game_time = 1
    /\ request_queue = <<>>
    /\ core_pc = "get"

====
